---- MODULE Spec2Model ----
(***************************************************************************)
(* Model of the resume back end:                                           *)
(*   parse_resume.py     the PDF fallback chain (read_pdf) with its        *)
(*                       backends, the command-line driver (main), the     *)
(*                       section segmenter (split_sections) and the        *)
(*                       contact matcher (extract_basics);                 *)
(*   generate_resume.py  the command line, generate_resume_from_template   *)
(*                       and convert_html_to_pdf;                          *)
(*   delivery.py         the class Delivery.                               *)
(*                                                                         *)
(* A Python str is modelled as a sequence of one-character strings, so     *)
(* that strip(), lower(), splitlines(), endswith(), replace(), "in" and    *)
(* len() are computed character by character as the interpreter computes   *)
(* them.  Each component has its own specification (Spec, SpecSeg,         *)
(* SpecBasics, SpecGen, SpecDel); the variables of the other components    *)
(* stay at rest in it.                                                     *)
(***************************************************************************)
EXTENDS Integers, Sequences, FiniteSets, TLC

VARIABLES
    pc,          \* position of the running program
    argv,        \* sys.argv
    avail,       \* which optional libraries were importable at load time
    fileExists,  \* whether argv[1] names an existing file
    methods,     \* read_pdf: the list of (name, function) pairs
    mi,          \* read_pdf: index of the next method to try
    calls,       \* history: every backend invocation, in order
    text,        \* main: the extracted text
    stdout,      \* what was written to sys.stdout, in order
    stderr,      \* what was written to sys.stderr, in order
    exit_code,   \* process exit status, -1 while running
    unclosed,    \* history: what a backend opened and had not closed on return
    seg_in,      \* split_sections: the argument
    seg_out,     \* split_sections: the returned dict
    seg_trace,   \* split_sections: history of the loop, one entry per line
    eb_in,       \* extract_basics: the argument
    eb_out,      \* extract_basics: the returned dict
    gen_argv,    \* generate_resume.py: sys.argv
    gen_fs,      \* generate_resume.py: what each file of the run holds
    gen_temp,    \* convert_html_to_pdf: the temporary HTML file
    gen_conv,    \* history: how the latest convert_html_to_pdf call went
    gen_success, \* generate_resume_from_template: the local `success`
    gen_exit,    \* generate_resume.py: exit status, -1 while running
    drivers,     \* Delivery: self.drivers, {driver_id: hourly_rate}
    deliveries,  \* Delivery: self.deliveries, [(driver_id, start, end)]
    last_call    \* Delivery: history, the latest method call and its result

vars == <<pc, argv, avail, fileExists, methods, mi, calls, text,
          stdout, stderr, exit_code, unclosed, seg_in, seg_out, seg_trace,
          eb_in, eb_out, gen_argv, gen_fs, gen_temp, gen_conv, gen_success,
          gen_exit,
          drivers, deliveries, last_call>>

mainVars == <<argv, avail, fileExists, methods, mi, calls, text,
              stdout, stderr, exit_code, unclosed>>
segVars == <<seg_in, seg_out, seg_trace>>
basicsVars == <<eb_in, eb_out>>
genVars == <<gen_argv, gen_fs, gen_temp, gen_conv, gen_success, gen_exit>>
\* the variables main and read_pdf never touch
delVars == <<drivers, deliveries, last_call>>
notMainVars == <<segVars, basicsVars, genVars, delVars>>

----------------------------------------------------------------------------
(* Python str primitives                                                   *)

\* the characters below U+0100 that have no escape in a string: vertical
\* tab \x0b, the separators \x1c-\x1f, next line \x85, no-break space \xa0
CH_VT == ""
CH_FS == ""
CH_GS == ""
CH_RS == ""
CH_US == ""
CH_NEL == ""
CH_NBSP == " "

\* str.isspace() for one character, which str.strip() and the \s of re
\* follow: every whitespace character below U+0100.  (The whitespace
\* above U+00FF, U+1680, U+2000-U+200A, U+2028, U+2029, U+202F, U+205F and
\* U+3000, cannot be written in a string of this module; no input of the
\* model holds one.)
Whitespace ==
    {" ", "\t", "\n", "\r", "\f", CH_VT, CH_FS, CH_GS, CH_RS, CH_US, CH_NEL,
     CH_NBSP}

\* the line boundaries of str.splitlines() below U+0100 (above it Python
\* also breaks at U+2028 and U+2029)
LineBreaks == {"\n", "\r", "\f", CH_VT, CH_FS, CH_GS, CH_RS, CH_NEL}

UpperAlpha == <<"A", "B", "C", "D", "E", "F", "G", "H", "I", "J", "K", "L", "M",
                "N", "O", "P", "Q", "R", "S", "T", "U", "V", "W", "X", "Y", "Z">>
LowerAlpha == <<"a", "b", "c", "d", "e", "f", "g", "h", "i", "j", "k", "l", "m",
                "n", "o", "p", "q", "r", "s", "t", "u", "v", "w", "x", "y", "z">>

\* the cased letters of U+00C0-U+00DE (U+00D7, the multiplication sign, is
\* not one) and their lowercase forms, 32 code points up
UpperLatin1 == <<"À", "Á", "Â", "Ã", "Ä", "Å", "Æ", "Ç", "È", "É",
                 "Ê", "Ë", "Ì", "Í", "Î", "Ï", "Ð", "Ñ", "Ò", "Ó",
                 "Ô", "Õ", "Ö", "Ø", "Ù", "Ú", "Û", "Ü", "Ý", "Þ">>
LowerLatin1 == <<"à", "á", "â", "ã", "ä", "å", "æ", "ç", "è", "é",
                 "ê", "ë", "ì", "í", "î", "ï", "ð", "ñ", "ò", "ó",
                 "ô", "õ", "ö", "ø", "ù", "ú", "û", "ü", "ý", "þ">>

\* str.lower() of one character below U+0100
LowerChar(c) ==
    IF \E i \in 1..Len(UpperAlpha) : UpperAlpha[i] = c
    THEN LowerAlpha[CHOOSE i \in 1..Len(UpperAlpha) : UpperAlpha[i] = c]
    ELSE IF \E i \in 1..Len(UpperLatin1) : UpperLatin1[i] = c
    THEN LowerLatin1[CHOOSE i \in 1..Len(UpperLatin1) : UpperLatin1[i] = c]
    ELSE c

\* s.lower()
Lower(s) == [i \in 1..Len(s) |-> LowerChar(s[i])]

\* s.strip()
Strip(s) ==
    LET keep == {i \in 1..Len(s) : s[i] \notin Whitespace}
    IN  IF keep = {} THEN <<>>
        ELSE LET lo == CHOOSE i \in keep : \A j \in keep : i <= j
                 hi == CHOOSE i \in keep : \A j \in keep : j <= i
             IN  SubSeq(s, lo, hi)

\* sub in s
Contains(s, sub) ==
    \E i \in 0..(Len(s) - Len(sub)) : SubSeq(s, i + 1, i + Len(sub)) = sub

\* s.startswith(prefix)
StartsWith(s, prefix) ==
    Len(prefix) <= Len(s) /\ SubSeq(s, 1, Len(prefix)) = prefix

\* bool(s.strip()): the text has a non-whitespace character
NonBlank(s) == \E i \in 1..Len(s) : s[i] \notin Whitespace

\* s.splitlines(): a line boundary or the pair "\r\n" ends a line; no empty
\* last line is produced after a final line break
RECURSIVE SplitLinesFrom(_, _)
SplitLinesFrom(s, j) ==
    IF j > Len(s) THEN <<>>
    ELSE LET brk == {i \in j..Len(s) : s[i] \in LineBreaks}
             eol == IF brk = {} THEN Len(s) + 1
                    ELSE CHOOSE i \in brk : \A k \in brk : i <= k
             nxt == IF eol > Len(s) THEN eol
                    ELSE IF s[eol] = "\r" /\ eol + 1 <= Len(s) /\ s[eol + 1] = "\n"
                         THEN eol + 2
                         ELSE eol + 1
         IN  <<SubSeq(s, j, eol - 1)>> \o SplitLinesFrom(s, nxt)

SplitLines(s) == SplitLinesFrom(s, 1)

\* "\n".join(v)
RECURSIVE JoinNL(_)
JoinNL(v) ==
    IF Len(v) = 0 THEN <<>>
    ELSE IF Len(v) = 1 THEN v[1]
    ELSE v[1] \o <<"\n">> \o JoinNL(Tail(v))

\* the concatenation of the strings of a list
RECURSIVE Concat(_)
Concat(ss) == IF Len(ss) = 0 THEN <<>> ELSE ss[1] \o Concat(Tail(ss))

----------------------------------------------------------------------------
(* split_sections                                                          *)

K_experience == <<"e", "x", "p", "e", "r", "i", "e", "n", "c", "e">>
K_work_experience ==
    <<"w", "o", "r", "k", " ", "e", "x", "p", "e", "r", "i", "e", "n", "c", "e">>
K_professional_experience ==
    <<"p", "r", "o", "f", "e", "s", "s", "i", "o", "n", "a", "l", " ",
      "e", "x", "p", "e", "r", "i", "e", "n", "c", "e">>
K_education == <<"e", "d", "u", "c", "a", "t", "i", "o", "n">>
K_skills == <<"s", "k", "i", "l", "l", "s">>
K_summary == <<"s", "u", "m", "m", "a", "r", "y">>
K_objective == <<"o", "b", "j", "e", "c", "t", "i", "v", "e">>
K_projects == <<"p", "r", "o", "j", "e", "c", "t", "s">>
K_skill == <<"s", "k", "i", "l", "l">>
K_project == <<"p", "r", "o", "j", "e", "c", "t">>

SECTION_KEYS ==
    <<K_experience, K_work_experience, K_professional_experience,
      K_education, K_skills, K_summary, K_objective, K_projects>>

\* the length a header line must stay below
HeaderLimit == 60

\* the condition of the if at the top of the loop body
IsHeaderInclusive(line) ==
    \E n \in 1..Len(SECTION_KEYS) :
        Contains(Lower(line), SECTION_KEYS[n]) /\ Len(line) <= HeaderLimit
IsHeader(line) ==
    \E n \in 1..Len(SECTION_KEYS) :
        Contains(Lower(line), SECTION_KEYS[n]) /\ Len(line) < HeaderLimit

\* the if/elif chain that picks the new current_key
ResolveKeyExperienceFirst(line) ==
    LET lower == Lower(line)
    IN  IF Contains(lower, K_experience) THEN K_experience
        ELSE IF StartsWith(lower, K_education) THEN K_education
        ELSE IF Contains(lower, K_summary) \/ Contains(lower, K_objective)
             THEN K_summary
        ELSE IF Contains(lower, K_skill) THEN K_skills
        ELSE IF Contains(lower, K_project) THEN K_projects
        ELSE line
ResolveKeyKeepCase(line) ==
    LET lower == Lower(line)
    IN  IF StartsWith(lower, K_education) THEN K_education
        ELSE IF Contains(lower, K_experience) THEN K_experience
        ELSE IF Contains(lower, K_skill) THEN K_skills
        ELSE IF Contains(lower, K_project) THEN K_projects
        ELSE IF Contains(lower, K_summary) \/ Contains(lower, K_objective)
             THEN K_summary
        ELSE line
ResolveKey(line) ==
    LET lower == Lower(line)
    IN  IF StartsWith(lower, K_education) THEN K_education
        ELSE IF Contains(lower, K_experience) THEN K_experience
        ELSE IF Contains(lower, K_skill) THEN K_skills
        ELSE IF Contains(lower, K_project) THEN K_projects
        ELSE IF Contains(lower, K_summary) \/ Contains(lower, K_objective)
             THEN K_summary
        ELSE Lower(line)

\* dict.setdefault(key, []) on a dict of lists
SetDefaultFresh(d, key) ==
    [k \in DOMAIN d \cup {key} |-> IF k = key THEN <<>> ELSE d[k]]
SetDefault(d, key) ==
    IF key \in DOMAIN d THEN d
    ELSE [k \in DOMAIN d \cup {key} |-> IF k = key THEN <<>> ELSE d[k]]

\* sections.setdefault(current_key, []).append(line)
AppendLower(d, key, line) ==
    LET e == SetDefault(d, key) IN [e EXCEPT ![key] = Append(e[key], Lower(line))]
AppendLine(d, key, line) ==
    LET e == SetDefault(d, key) IN [e EXCEPT ![key] = Append(e[key], line)]

\* total number of list items held by the dict
RECURSIVE ItemCount(_)
ItemCount(d) ==
    IF DOMAIN d = {} THEN 0
    ELSE LET k == CHOOSE x \in DOMAIN d : TRUE
         IN  Len(d[k]) + ItemCount([y \in DOMAIN d \ {k} |-> d[y]])

\* one iteration of the for loop over the lines
SegStep(st, line) ==
    LET next ==
            IF IsHeader(line)
            THEN LET key == ResolveKey(line)
                 IN  [sections |-> SetDefault(st.sections, key), current_key |-> key]
            ELSE [sections |-> AppendLine(st.sections, st.current_key, line),
                  current_key |-> st.current_key]
    IN  [sections |-> next.sections,
         current_key |-> next.current_key,
         trace |-> Append(st.trace,
                     [line |-> line,
                      before |-> st.current_key,
                      after |-> next.current_key,
                      appended |-> ItemCount(next.sections)
                                     = ItemCount(st.sections) + 1])]

\* the state before the loop: current_key = 'summary', sections = {'summary': []}
SegInitExperience ==
    [sections |-> [k \in {K_experience} |-> <<>>],
     current_key |-> K_experience,
     trace |-> <<>>]
SegInit ==
    [sections |-> [k \in {K_summary} |-> <<>>],
     current_key |-> K_summary,
     trace |-> <<>>]

RECURSIVE SegLoop(_, _, _)
SegLoop(st, lines, i) ==
    IF i > Len(lines) THEN st ELSE SegLoop(SegStep(st, lines[i]), lines, i + 1)

\* lines = [l.strip() for l in text.splitlines()]
StrippedLines(t) ==
    LET raw == SplitLines(t) IN [i \in 1..Len(raw) |-> Strip(raw[i])]

\* the dict comprehension that builds the returned dict
JoinedKeepAll(sections) ==
    [k \in DOMAIN sections |-> Strip(JoinNL(sections[k]))]
Joined(sections) ==
    LET keep == {k \in DOMAIN sections :
                    \E i \in 1..Len(sections[k]) : sections[k][i] # <<>>}
    IN  [k \in keep |-> Strip(JoinNL(sections[k]))]

split_sections_run(t) == SegLoop(SegInit, StrippedLines(t), 1)

split_sections(t) == Joined(split_sections_run(t).sections)

----------------------------------------------------------------------------
(* extract_basics: EMAIL_RE.search and PHONE_RE.search                     *)

Digits == {"0", "1", "2", "3", "4", "5", "6", "7", "8", "9"}
Letters == {UpperAlpha[i] : i \in 1..Len(UpperAlpha)}
              \cup {LowerAlpha[i] : i \in 1..Len(LowerAlpha)}

\* [A-Za-z0-9._%+-]
EmailLocalClass == Letters \cup Digits \cup {".", "_", "%", "+", "-"}
\* [A-Za-z0-9.-]
EmailDomainClass == Letters \cup Digits \cup {".", "-"}
\* [\d\-\s\(\)]  (\s matches every whitespace character, line breaks included)
PhoneBodyClass == Digits \cup {"-", "(", ")"} \cup Whitespace

\* {2,} of the last label of EMAIL_RE
TldMin == 2
\* {7,} of the middle run of PHONE_RE
PhoneBodyMin == 7

\* the last index of the longest run of characters of class C that starts
\* at index i (i - 1 when s[i] is not in C): what a greedy C* consumes
RunEnd(s, i, C) ==
    LET stop == {j \in i..Len(s) : s[j] \notin C}
    IN  IF stop = {} THEN Len(s)
        ELSE (CHOOSE j \in stop : \A k \in stop : j <= k) - 1

Max(S) == CHOOSE x \in S : \A y \in S : y <= x
Min(S) == CHOOSE x \in S : \A y \in S : x <= y

\* the index of the last character of the match of EMAIL_RE that starts at
\* index i, 0 when there is none.  The local part is the whole run up to the
\* "@"; the domain run is given back one character at a time until a "."
\* followed by two letters remains; the last label then takes every letter.
EmailMatchEnd(s, i) ==
    LET a == RunEnd(s, i, EmailLocalClass)
    IN  IF a < i \/ a + 1 > Len(s) \/ s[a + 1] # "@" THEN 0
        ELSE LET b == RunEnd(s, a + 2, EmailDomainClass)
                 ends == {e \in (a + 2)..(b - 1) :
                             /\ s[e + 1] = "."
                             /\ RunEnd(s, e + 2, Letters) >= e + 1 + TldMin}
             IN  IF ends = {} THEN 0
                 ELSE RunEnd(s, Max(ends) + 2, Letters)

\* the index of the last character of the match of PHONE_RE that starts at
\* index i, 0 when there is none: an optional "+", a digit, the longest run
\* of at least 7 body characters that leaves a digit to close the match.
PhoneMatchEnd(s, i) ==
    LET p == IF i <= Len(s) /\ s[i] = "+" THEN i + 1 ELSE i
    IN  IF p > Len(s) \/ s[p] \notin Digits THEN 0
        ELSE LET r == RunEnd(s, p + 1, PhoneBodyClass)
                 closes == {c \in (p + 1 + PhoneBodyMin)..r : s[c] \in Digits}
             IN  IF closes = {} THEN 0 ELSE Max(closes)

\* pattern.search(text).group(0) if there is a match, else ''
SearchEmailLast(t) ==
    LET starts == {i \in 1..Len(t) : EmailMatchEnd(t, i) # 0}
    IN  IF starts = {} THEN <<>>
        ELSE SubSeq(t, Max(starts), EmailMatchEnd(t, Max(starts)))
SearchEmail(t) ==
    LET starts == {i \in 1..Len(t) : EmailMatchEnd(t, i) # 0}
    IN  IF starts = {} THEN <<>>
        ELSE SubSeq(t, Min(starts), EmailMatchEnd(t, Min(starts)))

SearchPhone(t) ==
    LET starts == {i \in 1..Len(t) : PhoneMatchEnd(t, i) # 0}
    IN  IF starts = {} THEN <<>>
        ELSE SubSeq(t, Min(starts), PhoneMatchEnd(t, Min(starts)))

extract_basics(t) == [email |-> SearchEmail(t), phone |-> SearchPhone(t)]

----------------------------------------------------------------------------
(* Inputs of the segmenter                                                 *)

L_Experience == <<"E", "x", "p", "e", "r", "i", "e", "n", "c", "e">>
L_HigherEducation ==
    <<"H", "i", "g", "h", "e", "r", " ", "E", "d", "u", "c", "a", "t", "i", "o", "n">>
L_SkillsSummary ==
    <<"S", "k", "i", "l", "l", "s", " ", "S", "u", "m", "m", "a", "r", "y">>
L_Objective == <<"O", "b", "j", "e", "c", "t", "i", "v", "e">>
L_EducationAndExperience ==
    <<"E", "d", "u", "c", "a", "t", "i", "o", "n", " ", "a", "n", "d", " ",
      "E", "x", "p", "e", "r", "i", "e", "n", "c", "e">>
L_JaneCrProjects ==
    <<"J", "a", "n", "e", "\r", "P", "r", "o", "j", "e", "c", "t", "s">>
L_AcmeCorp == <<"A", "c", "m", "e", " ", "C", "o", "r", "p">>
\* a header in capitals between no-break spaces, a vertical tab, a line,
\* the end of the page and the first line of the next
L_EcoleAcme ==
    <<CH_NBSP, "É", "C", "O", "L", "E", " ", "/", " ", "E", "d", "u", "c", "a", "t",
      "i", "o", "n", CH_NBSP, CH_VT, "A", "c", "m", "e", "\f",
      "S", "k", "i", "l", "l", "s">>
L_BuiltAPIs == <<" ", " ", "B", "u", "i", "l", "t", " ", "A", "P", "I", "s", " ", "\t">>
L_skill == <<"s", "k", "i", "l", "l">>
L_Spaces == <<" ", " ", " ">>
\* 60 characters, contains "experience"
L_Long60 ==
    <<"T", "e", "n", " ", "y", "e", "a", "r", "s", " ", "o", "f", " ",
      "e", "x", "p", "e", "r", "i", "e", "n", "c", "e", " ",
      "b", "u", "i", "l", "d", "i", "n", "g", " ", "l", "a", "r", "g", "e", " ",
      "d", "a", "t", "a", " ", "p", "l", "a", "t", "f", "o", "r", "m", "s", ",", " ",
      "A", "c", "m", "e", ".">>
\* the same line without the final full stop: 59 characters
L_Long59 == SubSeq(L_Long60, 1, Len(L_Long60) - 1)

RawLinePool ==
    {L_Experience, L_HigherEducation, L_SkillsSummary, L_Objective,
     L_EducationAndExperience, L_JaneCrProjects, L_AcmeCorp, L_BuiltAPIs,
     L_EcoleAcme, L_skill, L_Spaces, L_Long60, L_Long59}

\* the largest number of pool lines joined into one input text
MaxLines == 3

SegInputs ==
    UNION {{JoinNL(f) : f \in [1..n -> RawLinePool]} : n \in 0..MaxLines}

----------------------------------------------------------------------------
(* Specification of the segmenter: split_sections applied to one text      *)

NoDict == [k \in {} |-> <<>>]

MainIdle ==
    /\ argv = <<>>
    /\ avail = [pdfminer |-> FALSE, high_level |-> FALSE, setup_failed |-> FALSE,
                fitz |-> FALSE, fitz_broken |-> FALSE, docx |-> FALSE]
    /\ fileExists = FALSE
    /\ methods = <<>>
    /\ mi = 0
    /\ calls = <<>>
    /\ text = <<>>
    /\ stdout = <<>>
    /\ stderr = <<>>
    /\ exit_code = -1
    /\ unclosed = {}

\* split_sections has not been called
SegIdle ==
    /\ seg_in = <<>>
    /\ seg_out = NoDict
    /\ seg_trace = <<>>

\* extract_basics has not been called
BasicsIdle ==
    /\ eb_in = <<>>
    /\ eb_out = NoDict

\* no call of convert_html_to_pdf yet
NoConvert == [run |-> "none", wrote |-> "nothing"]

\* generate_resume.py has not been started
GenIdle ==
    /\ gen_argv = <<>>
    /\ gen_fs = NoDict
    /\ gen_temp = "none"
    /\ gen_conv = NoConvert
    /\ gen_success = FALSE
    /\ gen_exit = -1

\* no Delivery object has been constructed
DelIdle ==
    /\ drivers = NoDict
    /\ deliveries = <<>>
    /\ last_call = NoDict

InitSeg ==
    /\ pc = "seg_call"
    /\ seg_in \in SegInputs
    /\ seg_out = NoDict
    /\ seg_trace = <<>>
    /\ MainIdle
    /\ BasicsIdle
    /\ GenIdle
    /\ DelIdle

SplitSections ==
    /\ pc = "seg_call"
    /\ LET run == split_sections_run(seg_in)
       IN  /\ seg_out' = Joined(run.sections)
           /\ seg_trace' = run.trace
    /\ pc' = "seg_ret"
    /\ UNCHANGED <<seg_in, mainVars, basicsVars, genVars, delVars>>

NextSeg == SplitSections

SpecSeg == InitSeg /\ [][NextSeg]_vars

----------------------------------------------------------------------------
(* Properties of the segmenter                                             *)

SegReturned == pc = "seg_ret"

KeywordSet == {SECTION_KEYS[n] : n \in 1..Len(SECTION_KEYS)}

\* the lines of a section text that are not empty
TextLines(t) == SelectSeq(SplitLines(t), LAMBDA l : l # <<>>)

\* the non-blank lines the loop appended while `key` was current, in order
AppendedUnder(key) ==
    LET sel == SelectSeq(seg_trace,
                         LAMBDA e : e.appended /\ e.after = key /\ e.line # <<>>)
    IN  [i \in 1..Len(sel) |-> sel[i].line]

SeqRange(s) == {s[i] : i \in 1..Len(s)}

\* C7: a trimmed line is consumed as a header exactly when it is shorter
\* than 60 characters and its lowercase form contains a section keyword; a
\* line of 60 or more characters containing "experience" leaves the current
\* section alone, and the line "Experience" switches it to `experience`.
C7_HeaderIffShortKeyword ==
    \A i \in 1..Len(seg_trace) :
        LET e == seg_trace[i]
        IN  /\ (~e.appended) <=>
                  (/\ Len(e.line) < HeaderLimit
                   /\ \E k \in KeywordSet : Contains(Lower(e.line), k))
            /\ (Len(e.line) >= HeaderLimit /\ Contains(Lower(e.line), K_experience))
                  => (e.appended /\ e.after = e.before)
            /\ (e.line = L_Experience) => (~e.appended /\ e.after = K_experience)

C7_Witness ==
    /\ SegReturned
    /\ Len(seg_trace) = 3
    /\ seg_trace[1].line = L_Long60 /\ seg_trace[1].appended
    /\ seg_trace[1].after = K_summary
    /\ seg_trace[2].line = L_Long59 /\ ~seg_trace[2].appended
    /\ seg_trace[3].line = L_Experience /\ ~seg_trace[3].appended
    /\ seg_trace[3].after = K_experience

\* C8: the key a header line switches to is the first match of: starts with
\* "education" -> education; contains "experience" -> experience; contains
\* "skill" -> skills; contains "project" -> projects; contains "summary" or
\* "objective" -> summary; otherwise the lowercased line itself.
C8_HeaderKeyPriority ==
    \A i \in 1..Len(seg_trace) :
        LET e == seg_trace[i]
            lower == Lower(e.line)
            edu == StartsWith(lower, K_education)
            exp == Contains(lower, K_experience)
            ski == Contains(lower, K_skill)
            prj == Contains(lower, K_project)
            summ == Contains(lower, K_summary) \/ Contains(lower, K_objective)
        IN  ~e.appended =>
              /\ edu => e.after = K_education
              /\ (~edu /\ exp) => e.after = K_experience
              /\ (~edu /\ ~exp /\ ski) => e.after = K_skills
              /\ (~edu /\ ~exp /\ ~ski /\ prj) => e.after = K_projects
              /\ (~edu /\ ~exp /\ ~ski /\ ~prj /\ summ) => e.after = K_summary
              /\ (~edu /\ ~exp /\ ~ski /\ ~prj /\ ~summ) => e.after = lower

C8_Witness ==
    /\ SegReturned
    /\ \E i, j, k \in 1..Len(seg_trace) :
          /\ seg_trace[i].line = L_EducationAndExperience
          /\ seg_trace[i].after = K_education
          /\ seg_trace[j].line = L_SkillsSummary
          /\ seg_trace[j].after = K_skills
          /\ seg_trace[k].line = L_HigherEducation
          /\ seg_trace[k].after = Lower(L_HigherEducation)

\* C9: section coverage.  In the returned dict the non-empty lines of each
\* section are exactly the non-blank, non-header lines read while that
\* section was current, unchanged and in input order (so each such line
\* occurs once, in one section); a header line is a line of no section.
C9_SectionCoverage ==
    SegReturned =>
        LET keys == DOMAIN seg_out \cup {seg_trace[i].after : i \in 1..Len(seg_trace)}
                       \cup {K_summary}
            got(k) == IF k \in DOMAIN seg_out THEN TextLines(seg_out[k]) ELSE <<>>
        IN  /\ \A k \in keys : got(k) = AppendedUnder(k)
            /\ \A i \in 1..Len(seg_trace) :
                  ~seg_trace[i].appended =>
                      \A k \in DOMAIN seg_out :
                          seg_trace[i].line \notin SeqRange(got(k))

C9_Witness ==
    /\ SegReturned
    /\ Len(seg_trace) = 3
    /\ seg_trace[1].line = L_AcmeCorp /\ seg_trace[1].appended
    /\ seg_trace[2].line = L_Experience /\ ~seg_trace[2].appended
    /\ seg_trace[3].line = Strip(L_BuiltAPIs) /\ seg_trace[3].appended
    /\ DOMAIN seg_out = {K_summary, K_experience}
    /\ seg_out[K_summary] = L_AcmeCorp
    /\ seg_out[K_experience] = Strip(L_BuiltAPIs)

\* C10: a key is in the returned dict only if a non-blank line was
\* accumulated under it, and every value is non-empty with no whitespace at
\* either end.
C10_OnlyNonBlankSections ==
    SegReturned =>
        \A k \in DOMAIN seg_out :
            /\ seg_out[k] # <<>>
            /\ seg_out[k][1] \notin Whitespace
            /\ seg_out[k][Len(seg_out[k])] \notin Whitespace
            /\ \E i \in 1..Len(seg_trace) :
                  /\ seg_trace[i].appended
                  /\ seg_trace[i].after = k
                  /\ NonBlank(seg_trace[i].line)

\* the initial summary section stays empty and a header is directly followed
\* by another header: both keys are absent, the third section is kept
C10_Witness ==
    /\ SegReturned
    /\ Len(seg_trace) = 3
    /\ seg_trace[1].line = L_Experience
    /\ seg_trace[2].line = L_EducationAndExperience
    /\ seg_trace[3].line = L_AcmeCorp
    /\ DOMAIN seg_out = {K_education}

\* the lines of the argument, trimmed, that are not blank
NonBlankInputLines ==
    SelectSeq([i \in 1..Len(SplitLines(seg_in)) |-> Strip(SplitLines(seg_in)[i])],
              LAMBDA l : l # <<>>)

\* no line up to and including line i was consumed as a header
NoHeaderUpTo(i) == \A j \in 1..i : seg_trace[j].appended

\* C11: the segmenter starts with current section `summary`.  Every line
\* read before the first header is accumulated under `summary`, and a text
\* with no header line gives at most the one key `summary`, whose text is
\* made of every non-blank line of the text.
C11_LeadingLinesUnderSummary ==
    SegReturned =>
        /\ Len(seg_trace) > 0 => seg_trace[1].before = K_summary
        /\ \A i \in 1..Len(seg_trace) :
              NoHeaderUpTo(i) =>
                  /\ seg_trace[i].after = K_summary
                  /\ seg_trace[i].line # <<>> =>
                        /\ K_summary \in DOMAIN seg_out
                        /\ seg_trace[i].line \in SeqRange(TextLines(seg_out[K_summary]))
        /\ NoHeaderUpTo(Len(seg_trace)) =>
              /\ DOMAIN seg_out \subseteq {K_summary}
              /\ NonBlankInputLines # <<>> =>
                    /\ DOMAIN seg_out = {K_summary}
                    /\ TextLines(seg_out[K_summary]) = NonBlankInputLines

\* a text of three lines without a header, and a text whose header comes
\* after two leading lines, are both segmented
C11_Witness ==
    /\ SegReturned
    /\ \/ /\ seg_in = JoinNL(<<L_AcmeCorp, L_Long60, L_BuiltAPIs>>)
          /\ DOMAIN seg_out = {K_summary}
          /\ seg_out[K_summary] = JoinNL(<<L_AcmeCorp, L_Long60, Strip(L_BuiltAPIs)>>)
       \/ /\ seg_in = JoinNL(<<L_AcmeCorp, L_BuiltAPIs, L_Experience>>)
          /\ seg_out[K_summary] = JoinNL(<<L_AcmeCorp, Strip(L_BuiltAPIs)>>)

\* the number of non-empty lines appended under `key` among the first i lines
Rank(key, i) ==
    Cardinality({m \in 1..i : /\ seg_trace[m].appended
                               /\ seg_trace[m].after = key
                               /\ seg_trace[m].line # <<>>})

\* C17: a line that is no header goes to the section the latest header
\* before it resolved to (`summary` when there is none), and in the
\* returned text of that section it stands after every line accumulated
\* there earlier, also when other sections and other headers of the same
\* key came in between: a later header overwrites and discards nothing.
C17_SameKeyAccumulates ==
    SegReturned =>
        \A i \in 1..Len(seg_trace) :
            LET e == seg_trace[i]
            IN  /\ e.before = IF i = 1 THEN K_summary ELSE seg_trace[i - 1].after
                /\ e.appended => e.after = e.before
                /\ (e.appended /\ e.line # <<>>) =>
                      /\ e.after \in DOMAIN seg_out
                      /\ Len(TextLines(seg_out[e.after])) >= Rank(e.after, i)
                      /\ TextLines(seg_out[e.after])[Rank(e.after, i)] = e.line

\* "Jane", "Projects", "Objective", "Acme Corp": the header "Objective"
\* returns to `summary`, which keeps "Jane" and gains "Acme Corp"
C17_Witness ==
    /\ SegReturned
    /\ seg_in = JoinNL(<<L_JaneCrProjects, L_Objective, L_AcmeCorp>>)
    /\ Len(seg_trace) = 4
    /\ seg_trace[2].after = K_projects
    /\ seg_trace[3].after = K_summary /\ ~seg_trace[3].appended
    /\ DOMAIN seg_out = {K_summary}
    /\ TextLines(seg_out[K_summary]) = <<SubSeq(L_JaneCrProjects, 1, 4), L_AcmeCorp>>

CanonicalKeys == {K_summary, K_experience, K_education, K_skills, K_projects}

\* the line contains "education" elsewhere than at its start and none of
\* the words of the other sections
EducationInside(line) ==
    LET lower == Lower(line)
    IN  /\ Contains(lower, K_education)
        /\ ~StartsWith(lower, K_education)
        /\ \A w \in {K_experience, K_skill, K_project, K_summary, K_objective} :
              ~Contains(lower, w)

\* C18: a header line resolves to one of summary, experience, education,
\* skills, projects, unless it contains "education" not at its start and
\* none of the other section words: then (and only then) the key is the
\* lowercased line itself.  So every key of the returned dict is canonical
\* or is the lowercased text of such a header line.
C18_KeysCanonicalOrEducationLine ==
    SegReturned =>
        /\ \A i \in 1..Len(seg_trace) :
              ~seg_trace[i].appended =>
                  IF EducationInside(seg_trace[i].line)
                  THEN /\ seg_trace[i].after = Lower(seg_trace[i].line)
                       /\ seg_trace[i].after \notin CanonicalKeys
                  ELSE seg_trace[i].after \in CanonicalKeys
        /\ \A k \in DOMAIN seg_out :
              \/ k \in CanonicalKeys
              \/ \E i \in 1..Len(seg_trace) :
                    /\ ~seg_trace[i].appended
                    /\ EducationInside(seg_trace[i].line)
                    /\ k = Lower(seg_trace[i].line)

\* "Higher Education" followed by a body line: the key is "higher education"
C18_Witness ==
    /\ SegReturned
    /\ seg_in = JoinNL(<<L_HigherEducation, L_AcmeCorp>>)
    /\ DOMAIN seg_out = {Lower(L_HigherEducation)}
    /\ seg_out[Lower(L_HigherEducation)] = L_AcmeCorp

----------------------------------------------------------------------------
(* Specification of the contact matcher: extract_basics applied to one text *)

B_Contact ==
    <<"C", "o", "n", "t", "a", "c", "t", ":", " ">>
B_JaneEmail ==
    <<"j", "a", "n", "e", ".", "d", "o", "e", "@", "e", "x", "a", "m",
      "p", "l", "e", ".", "c", "o", "m">>
B_ShortTld ==
    <<"a", "@", "b", ".", "c", " ">>
B_IoEmail ==
    <<"x", "@", "y", ".", "i", "o", " ">>
B_GroupedPhone ==
    <<"(", "5", "5", "5", ")", " ", "1", "2", "3", "-", "4", "5", "6", "7">>
B_PlusPhone ==
    <<"+", "1", " ", "5", "5", "5", "-", "1", "2", "3", "-", "4", "5",
      "6", "7", " ">>
B_Years ==
    <<"2", "0", "1", "9", "-", "2", "0", "2", "1", "\n", "2", "0", "2",
      "2", " ">>
B_TabbedPhone ==
    <<"1", "2", "\t", "3", "4", "5", " ", "6", "7", "8", "9", ";">>
\* digits at the foot of one page and at the head of the next
B_PageDigits ==
    <<"5", "5", "5", " ", "1", "2", "3", "\f", "4", "5", "6", "7", " ">>
B_SevenDigits ==
    <<"1", "2", "3", "4", "5", "6", "7", " ">>
B_Comma ==
    <<",", " ">>

BasicsTokens ==
    {B_Contact, B_JaneEmail, B_ShortTld, B_IoEmail, B_GroupedPhone,
     B_PlusPhone, B_Years, B_TabbedPhone, B_PageDigits, B_SevenDigits,
     B_Comma}

\* the text of the contact line "Contact: jane.doe@example.com, (555) 123-4567"
T_ContactLine == B_Contact \o B_JaneEmail \o B_Comma \o B_GroupedPhone

\* the largest number of tokens joined into one input text
MaxTokens == 3

BasicsInputs ==
    {T_ContactLine}
    \cup UNION {{Concat(f) : f \in [1..n -> BasicsTokens]} : n \in 0..MaxTokens}

InitBasics ==
    /\ pc = "eb_call"
    /\ eb_in \in BasicsInputs
    /\ eb_out = NoDict
    /\ MainIdle
    /\ SegIdle
    /\ GenIdle
    /\ DelIdle

ExtractBasics ==
    /\ pc = "eb_call"
    /\ eb_out' = extract_basics(eb_in)
    /\ pc' = "eb_ret"
    /\ UNCHANGED <<eb_in, mainVars, segVars, genVars, delVars>>

NextBasics == ExtractBasics

SpecBasics == InitBasics /\ [][NextBasics]_vars

----------------------------------------------------------------------------
(* Properties of the contact matcher                                       *)

BasicsReturned == pc = "eb_ret"

\* t[i..j] is an e-mail address: one or more local-part characters, "@", one
\* or more domain characters, ".", two or more letters
EmailAt(t, i, j) ==
    \E a \in (i + 1)..(j - 4) :
        /\ t[a] = "@"
        /\ \E e \in (a + 2)..(j - 2) :
              /\ t[e] = "."
              /\ \A k \in i..(a - 1) : t[k] \in EmailLocalClass
              /\ \A k \in (a + 1)..(e - 1) : t[k] \in EmailDomainClass
              /\ \A k \in (e + 1)..j : t[k] \in Letters

\* t[i..j] is a phone number: an optional "+", a digit, seven or more
\* characters of the body class, a digit
PhoneAt(t, i, j) ==
    LET p == IF t[i] = "+" THEN i + 1 ELSE i
    IN  /\ p + 8 <= j
        /\ t[p] \in Digits
        /\ t[j] \in Digits
        /\ \A k \in (p + 1)..(j - 1) : t[k] \in PhoneBodyClass

\* r is a match of the pattern At in t that starts where the leftmost match
\* starts, or r is empty and t holds no match
IsFirstMatch(At(_, _, _), t, r) ==
    LET starts == {i \in 1..Len(t) : \E j \in i..Len(t) : At(t, i, j)}
    IN  IF starts = {} THEN r = <<>>
        ELSE \E i \in starts :
                /\ \A i2 \in starts : i <= i2
                /\ \E j \in i..Len(t) : At(t, i, j) /\ r = SubSeq(t, i, j)

\* C12: extract_basics returns a dict with the two fields email and phone;
\* each is the leftmost match of its own pattern in the whole text, or the
\* empty string when the text holds no match.  For the contact line
\* "Contact: jane.doe@example.com, (555) 123-4567" the email is
\* "jane.doe@example.com" and the phone carries the ten digits 555 123 4567
\* in their groups.
C12_FirstMatchOrEmpty ==
    BasicsReturned =>
        /\ DOMAIN eb_out = {"email", "phone"}
        /\ IsFirstMatch(EmailAt, eb_in, eb_out.email)
        /\ IsFirstMatch(PhoneAt, eb_in, eb_out.phone)
        /\ eb_in = T_ContactLine =>
              /\ eb_out.email = B_JaneEmail
              /\ eb_out.phone = Tail(B_GroupedPhone)
              /\ SelectSeq(eb_out.phone, LAMBDA c : c \in Digits)
                    = <<"5", "5", "5", "1", "2", "3", "4", "5", "6", "7">>

\* a text with two addresses and no phone: the first address is returned
\* and the phone is empty
C12_Witness ==
    /\ BasicsReturned
    /\ eb_in = B_IoEmail \o B_JaneEmail
    /\ eb_out.email = SubSeq(B_IoEmail, 1, 6)
    /\ eb_out.phone = <<>>

\* the characters the body of a phone number is drawn from when only the
\* space counts as blank
OneLinePhoneClass == Digits \cup {"-", " ", "(", ")"}

\* C13: every non-empty phone returned by extract_basics is a substring of
\* the text made of an optional leading "+" and then a run of at least 9
\* characters drawn from digits, dashes, spaces and parentheses that starts
\* and ends with a digit; so it holds no tab and no line break.
C13_PhoneOnOneLine ==
    (BasicsReturned /\ eb_out.phone # <<>>) =>
        LET ph == eb_out.phone
            run == IF ph[1] = "+" THEN Tail(ph) ELSE ph
        IN  /\ \E i \in 1..Len(eb_in) :
                  /\ i + Len(ph) - 1 <= Len(eb_in)
                  /\ SubSeq(eb_in, i, i + Len(ph) - 1) = ph
            /\ Len(run) >= 9
            /\ run[1] \in Digits
            /\ run[Len(run)] \in Digits
            /\ \A k \in 1..Len(run) : run[k] \in OneLinePhoneClass
            /\ \A k \in 1..Len(ph) : ph[k] \notin Whitespace \ {" "}

----------------------------------------------------------------------------
(* Inputs of main: the command line, the import results, the file          *)

PROG == <<"p", "a", "r", "s", "e", "_", "r", "e", "s", "u", "m", "e", ".", "p", "y">>
P_pdf == <<"c", "v", ".", "p", "d", "f">>
P_PDF == <<"C", "V", ".", "P", "D", "F">>
P_docx == <<"c", "v", ".", "d", "o", "c", "x">>
P_Doc == <<"c", "v", ".", "D", "o", "c">>
P_txt == <<"c", "v", ".", "t", "x", "t">>
P_noext == <<"c", "v">>
P_dotfile == <<".", "p", "d", "f">>
P_dotdir == <<"a", ".", "p", "d", "f", "/", "c", "v">>

Paths == {P_pdf, P_PDF, P_docx, P_Doc, P_txt, P_noext, P_dotfile, P_dotdir}

ArgvInputs ==
    {<<PROG>>} \cup {<<PROG, p>> : p \in Paths} \cup {<<PROG, P_pdf, P_txt>>}

T_Resume ==
    <<"J", "a", "n", "e", " ", "D", "o", "e", "\n",
      "j", "a", "n", "e", ".", "d", "o", "e", "@",
      "e", "x", "a", "m", "p", "l", "e", ".", "c", "o", "m", "\n",
      "(", "5", "5", "5", ")", " ", "1", "2", "3", "-", "4", "5", "6", "7", "\n",
      "E", "x", "p", "e", "r", "i", "e", "n", "c", "e", "\n",
      "A", "c", "m", "e", " ", "C", "o", "r", "p">>
T_Skills == <<"S", "k", "i", "l", "l", "s", "\n", "P", "y", "t", "h", "o", "n">>
T_Blank == <<" ", "\n">>
T_Empty == <<>>
\* the text of a PDF whose one page holds no text: the page break alone
T_FormFeed == <<"\f">>
\* a text of no-break spaces
T_NoBreakSpaces == <<CH_NBSP, CH_NBSP>>

\* what a text-producing library call or a file read can hand back
BackendTexts ==
    {T_Resume, T_Skills, T_Blank, T_Empty, T_FormFeed, T_NoBreakSpaces}

PG_Skills == <<"S", "k", "i", "l", "l", "s", "\n">>
PG_Python == <<"P", "y", "t", "h", "o", "n", " ", "3", "\n">>
PageTexts == {<<>>, PG_Skills, PG_Python}

PA_Education == <<"E", "d", "u", "c", "a", "t", "i", "o", "n">>
PA_MSc == <<"M", "S", "c", " ", "2", "0", "1", "9">>
ParagraphTexts == {<<>>, PA_Education, PA_MSc}

\* the largest number of pages of a PDF opened by PyMuPDF
MaxPages == 2
\* the largest number of paragraphs of a word-processor document
MaxParagraphs == 2

\* a line written by print(..., file=sys.stderr), and the record written
\* by print(json.dumps(...))
Diag(m) == [kind |-> "diag", msg |-> m]
Json(o) == [kind |-> "json", obj |-> o]

\* how a call ends: what it returns or raises, and the lines it has
\* written to sys.stderr itself
Returned(t) == [kind |-> "returned", text |-> t, exc |-> "none", printed |-> <<>>]
Raised(e) == [kind |-> "raised", text |-> <<>>, exc |-> e, printed |-> <<>>]
\* print(m, file=sys.stderr) followed by return ""
PrintedEmpty(m) ==
    [kind |-> "returned", text |-> <<>>, exc |-> "none", printed |-> <<Diag(m)>>]

\* the results of the imports at load time.  pdfminer says whether
\* pdf_extract_text is defined, high_level whether it is the library
\* function, setup_failed that an import of pdfminer raised something other
\* than ImportError (the outer except clause prints and sets the name to
\* None).  fitz says whether fitz_extract_text is defined, fitz_broken that
\* `import fitz` raised something other than ImportError, which the clause
\* `except ImportError` lets through.  docx says whether `import docx`
\* succeeds; any exception of it is handled.
ImportResults ==
    {a \in [pdfminer : BOOLEAN, high_level : BOOLEAN, setup_failed : BOOLEAN,
            fitz : BOOLEAN, fitz_broken : BOOLEAN, docx : BOOLEAN] :
        /\ a.high_level => a.pdfminer
        /\ a.setup_failed => ~a.pdfminer
        /\ a.fitz_broken => ~a.fitz}

\* the exception of `import fitz` ends the process while the module loads:
\* main is never called
LoadFails(av) == av.fitz_broken

\* what the module has written to sys.stderr when its top level is done or
\* has raised: lines 36, 73, and the traceback of the interpreter
LoadOutput(av) ==
    (IF av.setup_failed THEN <<Diag("PDF extraction setup failed")>> ELSE <<>>)
    \o (IF LoadFails(av) THEN <<Diag("Traceback")>>
        ELSE IF av.docx THEN <<>>
        ELSE <<Diag("DOCX import failed")>>)

\* the exception classes the libraries, the file system and subprocess raise;
\* each derives from Exception
ExceptionClasses ==
    {"FileNotFoundError", "PermissionError", "PDFSyntaxError", "FileDataError",
     "RuntimeError", "TimeoutExpired", "PackageNotFoundError"}

\* whether a clause `except Exception` handles the exception
ExceptCatchesOSErrorOnly(exc) == exc \in {"FileNotFoundError", "PermissionError"}
ExceptCatches(exc) == exc \in ExceptionClasses

----------------------------------------------------------------------------
(* The backends                                                            *)

\* pdfminer's extract_text(path): text of any kind, or an exception
PdfminerOutcomes(exists) ==
    IF exists
    THEN {Returned(t) : t \in BackendTexts} \cup {Raised("PDFSyntaxError")}
    ELSE {Raised("FileNotFoundError")}

\* what pdf_extract_text leaves open when it returns or raises.  The library
\* function pdfminer.high_level.extract_text closes what it opens.  The
\* function defined at load time when only the low-level modules import
\* closes the file by its `with` block, and closes the converter and the
\* string buffer only on the path that reaches the end of the function.
pdf_extract_text_unclosed(o, av) ==
    IF av.high_level THEN {}
    ELSE IF o.kind = "raised" THEN {"converter", "string_io"}
    ELSE {}

\* what fitz.open(path) and the page loop do: open fails, or the document
\* has pages and page.get_text() fails on page failAt (0: on none)
FitzBehaviours(exists) ==
    IF exists
    THEN {[open |-> "raised", pages |-> <<>>, failAt |-> 0]}
         \cup UNION {{[open |-> "ok", pages |-> ps, failAt |-> f] :
                        ps \in [1..n -> PageTexts], f \in 0..n} : n \in 0..MaxPages}
    ELSE {[open |-> "raised", pages |-> <<>>, failAt |-> 0]}

\* fitz_extract_text(path): the except clause prints and returns ""
fitz_extract_text(b) ==
    IF b.open = "raised"
    THEN IF ExceptCatches("FileDataError")
         THEN PrintedEmpty("PyMuPDF extraction failed")
         ELSE Raised("FileDataError")
    ELSE IF b.failAt > 0
    THEN IF ExceptCatches("RuntimeError")
         THEN PrintedEmpty("PyMuPDF extraction failed")
         ELSE Raised("RuntimeError")
    ELSE Returned(Concat(b.pages))

\* what fitz_extract_text leaves open: doc.close() is the statement after the
\* page loop, so it is not reached when page.get_text() raises
fitz_unclosed(b) ==
    IF b.open = "ok" /\ b.failAt > 0 THEN {"document"} ELSE {}

\* what subprocess.run(['pdftotext', path, '-'], timeout=30) does: the tool
\* is not installed, it runs out of time, or it completes
PopplerBehaviours(exists) ==
    {[run |-> "raised", exc |-> "FileNotFoundError", returncode |-> 0, out |-> <<>>],
     [run |-> "raised", exc |-> "TimeoutExpired", returncode |-> 0, out |-> <<>>],
     [run |-> "completed", exc |-> "none", returncode |-> 1, out |-> <<>>]}
    \cup (IF exists
          THEN {[run |-> "completed", exc |-> "none", returncode |-> 0, out |-> t] :
                   t \in BackendTexts}
          ELSE {})

\* poppler_extract_text(path): both failure paths print and return ""
poppler_extract_text(b) ==
    IF b.run = "raised"
    THEN IF ExceptCatches(b.exc)
         THEN PrintedEmpty("Poppler command failed")
         ELSE Raised(b.exc)
    ELSE IF b.returncode = 0 THEN Returned(b.out)
    ELSE PrintedEmpty("Poppler extraction failed")

\* what poppler_extract_text leaves open: subprocess.run waits for the child,
\* and kills and waits for it when the timeout expires
poppler_unclosed(b) == {}

\* what docx.Document(path) does: it fails, or the document has paragraphs
DocxBehaviours(exists) ==
    IF exists
    THEN {[open |-> "raised", paragraphs |-> <<>>]}
         \cup UNION {{[open |-> "ok", paragraphs |-> ps] :
                        ps \in [1..n -> ParagraphTexts]} : n \in 0..MaxParagraphs}
    ELSE {[open |-> "raised", paragraphs |-> <<>>]}

\* read_docx(path), called with docx imported
read_docx(b) ==
    IF b.open = "raised"
    THEN IF ExceptCatches("PackageNotFoundError") THEN Returned(<<>>)
         ELSE Raised("PackageNotFoundError")
    ELSE Returned(JoinNL(b.paragraphs))

\* read_txt(path): open() fails, or the whole content is returned
read_txt(exists) ==
    IF exists
    THEN {Returned(t) : t \in BackendTexts} \cup {Raised("PermissionError")}
    ELSE {Raised("FileNotFoundError")}

----------------------------------------------------------------------------
(* read_pdf                                                                *)

\* the list `methods` built at the top of read_pdf
MethodsPopplerFirst(av) ==
    <<"poppler">>
    \o (IF av.pdfminer THEN <<"pdfminer">> ELSE <<>>)
    \o (IF av.fitz THEN <<"PyMuPDF">> ELSE <<>>)
Methods(av) ==
    (IF av.pdfminer THEN <<"pdfminer">> ELSE <<>>)
    \o (IF av.fitz THEN <<"PyMuPDF">> ELSE <<>>)
    \o <<"poppler">>

\* an outcome together with the resources the call left open
Leaving(o, res) ==
    [kind |-> o.kind, text |-> o.text, exc |-> o.exc, printed |-> o.printed,
     left |-> res]

\* what calling method_func(path) gives the loop
MethodOutcomes(name, exists, av) ==
    CASE name = "pdfminer" ->
            {Leaving(o, pdf_extract_text_unclosed(o, av)) : o \in PdfminerOutcomes(exists)}
      [] name = "PyMuPDF" ->
            {Leaving(fitz_extract_text(b), fitz_unclosed(b)) : b \in FitzBehaviours(exists)}
      [] name = "poppler" ->
            {Leaving(poppler_extract_text(b), poppler_unclosed(b)) :
                b \in PopplerBehaviours(exists)}

\* the test `text and text.strip()`
UsableNonEmpty(t) == t # <<>>
Usable(t) == t # <<>> /\ Strip(t) # <<>>

\* the index of the method the loop tries after method i did not succeed
NextMethod(i) == i + 1

----------------------------------------------------------------------------
(* main                                                                    *)

\* os.path.splitext(path): the extension starts at the last dot of the last
\* path component, unless only dots precede it in that component
splitext(path) ==
    LET seps == {i \in 1..Len(path) : path[i] = "/"}
        dots == {i \in 1..Len(path) : path[i] = "."}
        sepIndex == IF seps = {} THEN 0 ELSE Max(seps)
        dotIndex == IF dots = {} THEN 0 ELSE Max(dots)
    IN  IF /\ dotIndex > sepIndex
           /\ \E i \in (sepIndex + 1)..(dotIndex - 1) : path[i] # "."
        THEN <<SubSeq(path, 1, dotIndex - 1), SubSeq(path, dotIndex, Len(path))>>
        ELSE <<path, <<>> >>

EXT_pdf == <<".", "p", "d", "f">>
EXT_docx == <<".", "d", "o", "c", "x">>
EXT_doc == <<".", "d", "o", "c">>

\* ext = os.path.splitext(path)[1].lower()
ExtOfCaseSensitive(path) == splitext(path)[2]
ExtOf(path) == Lower(splitext(path)[2])

\* the branch of the if/elif/else on ext
Route(path) ==
    IF ExtOf(path) = EXT_pdf THEN "pdf"
    ELSE IF ExtOf(path) \in {EXT_docx, EXT_doc} THEN "docx"
    ELSE "txt"

NO_TEXT == "No text could be extracted from the file"
USAGE == "usage: parse_resume.py <file>"

\* the dict `out` main builds from the extracted text
OutIfEmpty(t) ==
    IF t = <<>>
    THEN [raw_text |-> <<>>, email |-> <<>>, phone |-> <<>>, sections |-> NoDict,
          error |-> NO_TEXT]
    ELSE [raw_text |-> t,
          email |-> extract_basics(t).email,
          phone |-> extract_basics(t).phone,
          sections |-> split_sections(t)]
Out(t) ==
    IF Strip(t) = <<>>
    THEN [raw_text |-> <<>>, email |-> <<>>, phone |-> <<>>, sections |-> NoDict,
          error |-> NO_TEXT]
    ELSE [raw_text |-> t,
          email |-> extract_basics(t).email,
          phone |-> extract_basics(t).phone,
          sections |-> split_sections(t)]

\* the status sys.exit(1) ends the process with after the usage message
USAGE_EXIT == 1

\* the negation of the test `len(sys.argv) != 2`
ArgCountAtLeast(av) == Len(av) >= 2
ArgCountOk(av) == Len(av) = 2

Init ==
    /\ argv \in ArgvInputs
    /\ avail \in ImportResults
    /\ pc = IF LoadFails(avail) THEN "crashed" ELSE "start"
    /\ fileExists \in BOOLEAN
    /\ methods = <<>>
    /\ mi = 0
    /\ calls = <<>>
    /\ text = <<>>
    /\ stdout = <<>>
    /\ stderr = LoadOutput(avail)
    /\ exit_code = IF LoadFails(avail) THEN 1 ELSE -1
    /\ unclosed = {}
    /\ SegIdle
    /\ BasicsIdle
    /\ GenIdle
    /\ DelIdle

\* an exception nobody handles: traceback on stderr, exit status 1
Crash(err) ==
    /\ pc' = "crashed"
    /\ stderr' = Append(err, Diag("Traceback"))
    /\ exit_code' = 1

\* main, the argument check fails: usage on stderr, sys.exit(1)
AtUsage == pc = "start" /\ ~ArgCountOk(argv)

MainUsage ==
    /\ AtUsage
    /\ stderr' = Append(stderr, Json([error |-> USAGE]))
    /\ exit_code' = USAGE_EXIT
    /\ pc' = "exited"
    /\ UNCHANGED <<argv, avail, fileExists, unclosed, methods, mi, calls, text, stdout, notMainVars>>

\* main, ext == '.pdf' and pdf_extract_text is None
AtPdfUnavailable ==
    pc = "start" /\ ArgCountOk(argv) /\ Route(argv[2]) = "pdf" /\ ~avail.pdfminer

MainPdfUnavailable ==
    /\ AtPdfUnavailable
    /\ stderr' = stderr \o <<Diag("Processing file"), Diag("PDF extraction not available")>>
    /\ text' = <<>>
    /\ pc' = "assemble"
    /\ UNCHANGED <<argv, avail, fileExists, unclosed, methods, mi, calls, stdout, exit_code, notMainVars>>

\* main, ext == '.pdf': read_pdf is entered and builds its list of methods
AtPdfCall ==
    pc = "start" /\ ArgCountOk(argv) /\ Route(argv[2]) = "pdf" /\ avail.pdfminer

MainPdfCall ==
    /\ AtPdfCall
    /\ stderr' = Append(stderr, Diag("Processing file"))
    /\ methods' = Methods(avail)
    /\ mi' = 1
    /\ pc' = "read_pdf"
    /\ UNCHANGED <<argv, avail, fileExists, unclosed, calls, text, stdout, exit_code, notMainVars>>

\* read_pdf, one iteration of the loop over the methods
AtReadPdfTry == pc = "read_pdf" /\ mi <= Len(methods)

ReadPdfTry ==
    /\ AtReadPdfTry
    /\ \E o \in MethodOutcomes(methods[mi], fileExists, avail) :
          LET name == methods[mi]
              \* the line of read_pdf, then the lines of the backend
              err1 == Append(stderr, Diag("Trying extraction")) \o o.printed
          IN  /\ calls' = Append(calls, [backend |-> name, kind |-> o.kind, text |-> o.text])
              /\ unclosed' = unclosed \cup {[backend |-> name, resource |-> x] :
                                               x \in o.left}
              /\ IF o.kind = "raised"
                 THEN IF ExceptCatches(o.exc)
                      THEN /\ stderr' = Append(err1, Diag("extraction failed"))
                           /\ mi' = NextMethod(mi)
                           /\ UNCHANGED <<pc, text, exit_code>>
                      ELSE \* the exception leaves read_pdf; main's except clause
                           IF ExceptCatches(o.exc)
                           THEN /\ stderr' = Append(err1, Diag("PDF extraction failed"))
                                /\ text' = <<>>
                                /\ pc' = "assemble"
                                /\ UNCHANGED <<mi, exit_code>>
                           ELSE /\ Crash(err1)
                                /\ UNCHANGED <<mi, text>>
                 ELSE IF Usable(o.text)
                 THEN /\ stderr' = err1 \o <<Diag("Successfully extracted"),
                                             Diag("Extracted characters from PDF")>>
                      /\ text' = o.text
                      /\ pc' = "assemble"
                      /\ UNCHANGED <<mi, exit_code>>
                 ELSE /\ stderr' = Append(err1, Diag("returned empty text"))
                      /\ mi' = NextMethod(mi)
                      /\ UNCHANGED <<pc, text, exit_code>>
    /\ UNCHANGED <<argv, avail, fileExists, methods, stdout, notMainVars>>

\* read_pdf, the loop ends without a success: return ""
AtReadPdfExhausted == pc = "read_pdf" /\ mi > Len(methods)

ReadPdfExhausted ==
    /\ AtReadPdfExhausted
    /\ stderr' = stderr \o <<Diag("All PDF extraction methods failed"),
                             Diag("Extracted characters from PDF")>>
    /\ text' = <<>>
    /\ pc' = "assemble"
    /\ UNCHANGED <<argv, avail, fileExists, unclosed, methods, mi, calls, stdout, exit_code, notMainVars>>

\* main, ext in ('.docx', '.doc') and docx is None
AtDocxUnavailable ==
    pc = "start" /\ ArgCountOk(argv) /\ Route(argv[2]) = "docx" /\ ~avail.docx

MainDocxUnavailable ==
    /\ AtDocxUnavailable
    /\ stderr' = stderr \o <<Diag("Processing file"), Diag("DOCX extraction not available")>>
    /\ text' = <<>>
    /\ pc' = "assemble"
    /\ UNCHANGED <<argv, avail, fileExists, unclosed, methods, mi, calls, stdout, exit_code, notMainVars>>

\* main, ext in ('.docx', '.doc'): read_docx(path) inside try/except;
\* docx.Document(path) is handed the path and keeps no handle of its own
AtDocx ==
    pc = "start" /\ ArgCountOk(argv) /\ Route(argv[2]) = "docx" /\ avail.docx

MainDocx ==
    /\ AtDocx
    /\ \E b \in DocxBehaviours(fileExists) :
          LET o == read_docx(b)
              err1 == Append(stderr, Diag("Processing file"))
          IN  /\ calls' = Append(calls, [backend |-> "docx", kind |-> o.kind, text |-> o.text])
              /\ IF o.kind = "raised"
                 THEN IF ExceptCatches(o.exc)
                      THEN /\ stderr' = Append(err1, Diag("DOCX extraction failed"))
                           /\ text' = <<>>
                           /\ pc' = "assemble"
                           /\ UNCHANGED exit_code
                      ELSE /\ Crash(err1)
                           /\ UNCHANGED text
                 ELSE /\ stderr' = Append(err1, Diag("Extracted characters from DOCX"))
                      /\ text' = o.text
                      /\ pc' = "assemble"
                      /\ UNCHANGED exit_code
    /\ UNCHANGED <<argv, avail, fileExists, unclosed, methods, mi, stdout, notMainVars>>

\* main, any other extension: read_txt(path) inside try/except; the file
\* is closed by the `with` block of read_txt on every path
AtTxt == pc = "start" /\ ArgCountOk(argv) /\ Route(argv[2]) = "txt"

MainTxt ==
    /\ AtTxt
    /\ \E o \in read_txt(fileExists) :
          LET err1 == Append(stderr, Diag("Processing file"))
          IN  /\ calls' = Append(calls, [backend |-> "txt", kind |-> o.kind, text |-> o.text])
              /\ IF o.kind = "raised"
                 THEN IF ExceptCatches(o.exc)
                      THEN /\ stderr' = Append(err1, Diag("Text file reading failed"))
                           /\ text' = <<>>
                           /\ pc' = "assemble"
                           /\ UNCHANGED exit_code
                      ELSE /\ Crash(err1)
                           /\ UNCHANGED text
                 ELSE /\ stderr' = Append(err1, Diag("Extracted characters from text file"))
                      /\ text' = o.text
                      /\ pc' = "assemble"
                      /\ UNCHANGED exit_code
    /\ UNCHANGED <<argv, avail, fileExists, unclosed, methods, mi, stdout, notMainVars>>

\* main, from `if not text.strip()` to the end: build `out`, write it to
\* stdout as one JSON document, return (exit status 0)
AtAssemble == pc = "assemble"

MainAssemble ==
    /\ AtAssemble
    /\ stderr' = stderr \o (IF Strip(text) = <<>>
                            THEN <<Diag("No text extracted from file")>>
                            ELSE <<Diag("Found email"), Diag("Found phone"),
                                   Diag("Found sections")>>)
    /\ stdout' = Append(stdout, Json(Out(text)))
    /\ exit_code' = 0
    /\ pc' = "done"
    /\ UNCHANGED <<argv, avail, fileExists, unclosed, methods, mi, calls, text, notMainVars>>

Next ==
    \/ MainUsage
    \/ MainPdfUnavailable
    \/ MainPdfCall
    \/ ReadPdfTry
    \/ ReadPdfExhausted
    \/ MainDocxUnavailable
    \/ MainDocx
    \/ MainTxt
    \/ MainAssemble

Spec == Init /\ [][Next]_vars

----------------------------------------------------------------------------
(* Properties of main and read_pdf                                         *)

Terminated == pc \in {"done", "exited", "crashed"}

\* the run was given one path and that path has the extension .pdf
PdfRun == Len(argv) = 2 /\ Lower(splitext(argv[2])[2]) = EXT_pdf

\* the invocation handed back text that is not blank
Succeeded(c) == c.kind = "returned" /\ NonBlank(c.text)

LastCall == calls[Len(calls)]

\* C1: for a PDF input an unavailable pdfminer is handled like a failed one:
\* the chain goes on to the remaining backends, so when the extraction is
\* over either some backend handed back non-blank text, which is the result,
\* or the last backend, the pdftotext command, was tried as well.
C1_UnavailableLikeFailed ==
    (PdfRun /\ pc \in {"assemble", "done"}) =>
        /\ calls # <<>>
        /\ \/ Succeeded(LastCall) /\ text = LastCall.text
           \/ LastCall.backend = "poppler" /\ text = <<>>

\* the backends installed for this run, in the order pdfminer, PyMuPDF, poppler
InstalledOrder ==
    SelectSeq(<<"pdfminer", "PyMuPDF", "poppler">>,
              LAMBDA n : \/ n = "pdfminer" /\ avail.pdfminer
                         \/ n = "PyMuPDF" /\ avail.fitz
                         \/ n = "poppler")

\* C2: read_pdf invokes the backends in the order pdfminer, PyMuPDF, poppler,
\* each at most once, one after the other; no backend is invoked after one
\* handed back non-blank text, none is invoked again, and read_pdf returns
\* only after a success or after the last backend.
C2_OrderedAtMostOnce ==
    PdfRun =>
        /\ Len(calls) <= Len(InstalledOrder)
        /\ \A i \in 1..Len(calls) : calls[i].backend = InstalledOrder[i]
        /\ \A i \in 1..Len(calls) : \A j \in 1..Len(calls) :
              i # j => calls[i].backend # calls[j].backend
        /\ \A i \in 1..(Len(calls) - 1) : ~Succeeded(calls[i])
        /\ (pc \in {"assemble", "done"} /\ avail.pdfminer) =>
              /\ calls # <<>>
              /\ Succeeded(LastCall) \/ LastCall.backend = "poppler"

\* pdfminer fails, PyMuPDF succeeds, poppler is not invoked
C2_Witness ==
    /\ PdfRun
    /\ pc = "assemble"
    /\ avail.fitz
    /\ Len(calls) = 2
    /\ calls[1].backend = "pdfminer" /\ calls[1].kind = "raised"
    /\ calls[2].backend = "PyMuPDF" /\ Succeeded(calls[2])

\* the extraction is over: main holds the text of the route it took
Extracted == pc \in {"assemble", "done"}

\* no invoked backend handed back non-blank text
NoneSucceeded == \A i \in 1..Len(calls) : ~Succeeded(calls[i])

\* t is the empty string, or the whole output of one backend, the last one
\* invoked and the only one that handed back non-blank text
OneOutputOrEmpty(t) ==
    \/ t = <<>>
    \/ /\ calls # <<>>
       /\ Succeeded(LastCall)
       /\ t = LastCall.text
       /\ \A i \in 1..(Len(calls) - 1) : ~Succeeded(calls[i])

\* t is not the output of one invoked backend followed by that of another
NoBlend(t) ==
    \A i \in 1..Len(calls) : \A j \in 1..Len(calls) :
        (i # j /\ calls[i].text # <<>> /\ calls[j].text # <<>>)
            => t # calls[i].text \o calls[j].text

\* C3 as stated, for every file type: the text the extraction hands to main
\* is the empty string or the whole output of exactly one backend, whose
\* output is not blank; it is empty exactly when no attempted backend handed
\* back non-blank text; it is never made of the outputs of two backends.
C3_ChainTextOneOrEmpty ==
    Extracted =>
        /\ OneOutputOrEmpty(text)
        /\ (text = <<>>) <=> NoneSucceeded
        /\ NoBlend(text)

\* C3, amended: for a PDF the text read_pdf returns is the empty string or
\* the whole non-blank output of exactly one backend, and it is empty
\* exactly when no attempted backend handed back non-blank text.  On the
\* .docx/.doc and text routes the one reader's output is handed on as read,
\* so the text may be blank without being empty; it is the empty string when
\* the reader failed or is unavailable.  On every route the text is blank
\* exactly when no attempted backend handed back non-blank text, it is never
\* made of the outputs of two backends, and the raw_text of the record main
\* writes is the empty string or the whole non-blank output of exactly one
\* backend, empty exactly when no attempted backend handed back non-blank
\* text.
C3_OneBackendOrEmpty ==
    Extracted =>
        /\ PdfRun =>
              /\ OneOutputOrEmpty(text)
              /\ (text = <<>>) <=> NoneSucceeded
        /\ ~PdfRun =>
              /\ Len(calls) <= 1
              /\ \/ text = <<>>
                 \/ /\ calls # <<>>
                    /\ LastCall.kind = "returned"
                    /\ text = LastCall.text
              /\ (calls = <<>> \/ LastCall.kind = "raised") => text = <<>>
        /\ ~NonBlank(text) <=> NoneSucceeded
        /\ NoBlend(text)
        /\ pc = "done" =>
              LET raw == stdout[1].obj.raw_text
              IN  /\ OneOutputOrEmpty(raw)
                  /\ (raw = <<>>) <=> NoneSucceeded
                  /\ NoBlend(raw)

\* a file of white space read on the text route: the text main holds is that
\* white space, the record's raw_text is the empty string
C3_Witness ==
    /\ Len(argv) = 2
    /\ ~PdfRun
    /\ pc = "done"
    /\ Len(calls) = 1
    /\ calls[1].backend = "txt"
    /\ calls[1].kind = "returned"
    /\ text = T_Blank
    /\ stdout[1].obj.raw_text = <<>>
    /\ "error" \in DOMAIN stdout[1].obj

\* pdfminer hands back blank text, PyMuPDF the text of two pages, which is
\* the text of the run
C3_PdfFallback ==
    /\ PdfRun
    /\ pc = "assemble"
    /\ Len(calls) = 2
    /\ calls[1].kind = "returned" /\ calls[1].text = T_Blank
    /\ calls[2].text = PG_Skills \o PG_Python
    /\ text = PG_Skills \o PG_Python

RecordKeys == {"raw_text", "email", "phone", "sections"}

\* some statement of main or read_pdf is ready to execute: the position is
\* one of the program's and the call made there has an outcome
CanStep ==
    \/ AtUsage
    \/ AtPdfUnavailable
    \/ AtPdfCall
    \/ AtReadPdfTry /\ MethodOutcomes(methods[mi], fileExists, avail) # {}
    \/ AtReadPdfExhausted
    \/ AtDocxUnavailable
    \/ AtDocx /\ DocxBehaviours(fileExists) # {}
    \/ AtTxt /\ read_txt(fileExists) # {}
    \/ AtAssemble

\* main has been called: the module loaded to its end
MainEntered == ~LoadFails(avail)

\* C4: once main runs with exactly one argument, whatever the file type and
\* whatever the backends do, nothing but one JSON record is written to
\* stdout, stderr holds only diagnostics, no exception ends the process,
\* main is never stuck before its end, and at its end the record is written
\* and the exit status is 0.
C4_OneRecordAlways ==
    (Len(argv) = 2 /\ MainEntered) =>
        /\ pc \in {"start", "read_pdf", "assemble", "done"}
        /\ pc # "done" => CanStep
        /\ Len(stdout) <= 1
        /\ \A i \in 1..Len(stdout) :
              stdout[i].kind = "json" /\ RecordKeys \subseteq DOMAIN stdout[i].obj
        /\ \A i \in 1..Len(stderr) : stderr[i].kind = "diag"
        /\ pc = "done" => Len(stdout) = 1 /\ exit_code = 0
        /\ pc # "done" => stdout = <<>> /\ exit_code = -1

\* every PDF backend is installed and fails: an exception, an empty text
\* after a caught one, a timeout
C4_Witness ==
    /\ PdfRun
    /\ pc = "done"
    /\ Len(calls) = 3
    /\ calls[1].kind = "raised"
    /\ \A i \in 1..3 : ~Succeeded(calls[i])
    /\ Len(stdout) = 1
    /\ exit_code = 0

\* C5: the record has an `error` field exactly when the extracted text is
\* blank; then raw_text, email and phone are empty strings and sections is
\* an empty map; otherwise raw_text is the extracted text, unchanged.
C5_ErrorIffBlank ==
    pc = "done" =>
        LET rec == stdout[1].obj
        IN  /\ ("error" \in DOMAIN rec) <=> ~NonBlank(text)
            /\ ("error" \in DOMAIN rec) =>
                  /\ rec.raw_text = <<>>
                  /\ rec.email = <<>>
                  /\ rec.phone = <<>>
                  /\ DOMAIN rec.sections = {}
                  /\ rec.error # ""
            /\ ("error" \notin DOMAIN rec) => rec.raw_text = text

\* every backend of the chain raises or hands back nothing
C5_Witness ==
    /\ PdfRun
    /\ pc = "done"
    /\ Len(calls) = 3
    /\ \A i \in 1..3 : ~Succeeded(calls[i])
    /\ "error" \in DOMAIN stdout[1].obj
    /\ stdout[1].obj.raw_text = <<>>

\* C6 as stated: a wrong number of arguments or a path naming a missing file
\* ends with a non-zero exit status, before any backend is attempted and
\* with no record on stdout.
C6_InvocationErrors ==
    (Len(argv) # 2 \/ ~fileExists) =>
        /\ calls = <<>>
        /\ stdout = <<>>
        /\ Terminated => exit_code # 0

\* C6 (amended): only a wrong number of arguments is an invocation error: it
\* ends with exit status 1, no backend attempted, nothing on stdout.  With
\* one argument naming a missing file main still returns with exit status 0
\* and the record on stdout, which carries `error`; main never ends a run
\* with one argument with a non-zero status.
C6_UsageErrorOnly ==
    /\ Len(argv) # 2 =>
          /\ pc \in {"start", "exited", "crashed"}
          /\ pc = "crashed" => ~MainEntered
          /\ calls = <<>>
          /\ stdout = <<>>
          /\ Terminated => exit_code = 1
    /\ (Len(argv) = 2 /\ ~fileExists /\ pc = "done") =>
          /\ exit_code = 0
          /\ Len(stdout) = 1
          /\ "error" \in DOMAIN stdout[1].obj
    /\ (Terminated /\ exit_code # 0 /\ MainEntered) => Len(argv) # 2

C6_Witness ==
    /\ Len(argv) = 3
    /\ pc = "exited"
    /\ exit_code = 1
    /\ calls = <<>>
    /\ stdout = <<>>
    /\ stderr # <<>>
    /\ stderr[Len(stderr)] = Json([error |-> USAGE])

\* C14: every backend has released every resource it opened (file, document
\* handle, converter, process handle) when it returns control to the chain,
\* also when extraction raises part-way through the pages.
C14_BackendsReleaseAll == unclosed = {}

\* the backends and the diagnostics that belong to each route
RouteBackends ==
    [pdf |-> {"pdfminer", "PyMuPDF", "poppler"}, docx |-> {"docx"}, txt |-> {"txt"}]

RouteDiags ==
    [pdf |-> {"PDF extraction not available", "Trying extraction",
              "extraction failed", "returned empty text", "Successfully extracted",
              "PyMuPDF extraction failed", "Poppler extraction failed",
              "Poppler command failed",
              "All PDF extraction methods failed", "PDF extraction failed",
              "Extracted characters from PDF"},
     docx |-> {"DOCX extraction not available", "DOCX extraction failed",
               "Extracted characters from DOCX"},
     txt |-> {"Text file reading failed", "Extracted characters from text file"}]

\* the route the extension of the path stands for, letter case ignored
ExpectedRoute(path) ==
    LET ext == Lower(splitext(path)[2])
    IN  IF ext = <<".", "p", "d", "f">> THEN "pdf"
        ELSE IF ext \in {<<".", "d", "o", "c", "x">>, <<".", "d", "o", "c">>} THEN "docx"
        ELSE "txt"

\* the diagnostics written so far that belong to route r
DiagsOf(r) ==
    {i \in 1..Len(stderr) : stderr[i].kind = "diag" /\ stderr[i].msg \in RouteDiags[r]}

\* C15: the route is decided by the extension of the path alone, compared
\* without regard to letter case: .pdf takes the PDF chain, .docx and .doc
\* the document backend, anything else (no extension included) the plain
\* read.  One route is taken per run: every backend invoked and every
\* route diagnostic written belongs to that route, and a run that got past
\* the route has left a trace of it.
C15_RouteByExtension ==
    IF Len(argv) # 2 THEN calls = <<>>
    ELSE LET r == ExpectedRoute(argv[2])
         IN  /\ \A i \in 1..Len(calls) : calls[i].backend \in RouteBackends[r]
             /\ \A q \in {"pdf", "docx", "txt"} \ {r} : DiagsOf(q) = {}
             /\ pc \in {"assemble", "done"} => DiagsOf(r) # {}
             /\ (pc \in {"assemble", "done"} /\ r = "txt") =>
                    Len(calls) = 1 /\ calls[1].backend = "txt"
             /\ (pc \in {"assemble", "done"} /\ r = "docx" /\ avail.docx) =>
                    Len(calls) = 1 /\ calls[1].backend = "docx"
             /\ pc = "read_pdf" => r = "pdf"

\* a run for CV.PDF, extension in capitals, ended through the PDF chain
C15_Witness ==
    /\ pc = "done"
    /\ Len(argv) = 2
    /\ argv[2] = P_PDF
    /\ Len(calls) = 2
    /\ calls[1].backend = "pdfminer"
    /\ calls[2].backend = "PyMuPDF"

----------------------------------------------------------------------------
(* generate_resume.py: the command line, generate_resume_from_template and *)
(* convert_html_to_pdf                                                     *)

\* str.endswith(suffix)
EndsWith(s, suffix) ==
    /\ Len(s) >= Len(suffix)
    /\ SubSeq(s, Len(s) - Len(suffix) + 1, Len(s)) = suffix

\* str.replace(old, new): every occurrence of old, left to right
RECURSIVE Replace(_, _, _)
Replace(s, old, new) ==
    IF Len(s) < Len(old) THEN s
    ELSE IF SubSeq(s, 1, Len(old)) = old
    THEN new \o Replace(SubSeq(s, Len(old) + 1, Len(s)), old, new)
    ELSE <<s[1]>> \o Replace(Tail(s), old, new)

EXT_html == <<".", "h", "t", "m", "l">>

G_out_pdf == <<"o", "u", "t", ".", "p", "d", "f">>
G_cv_html == <<"c", "v", ".", "h", "t", "m", "l">>
G_dir_pdf == <<"a", ".", "p", "d", "f", "/", "c", "v", ".", "p", "d", "f">>
\* test_pdf = "test_output.pdf" of test_wkhtmltopdf
TEST_PDF ==
    <<"t", "e", "s", "t", "_", "o", "u", "t", "p", "u", "t", ".", "p", "d", "f">>

OutputPaths == {G_out_pdf, G_cv_html, G_dir_pdf}

\* html_path = output_path.replace('.pdf', '.html')
HtmlPath(path) == Replace(path, EXT_pdf, EXT_html)

\* the files a run can read or write
GenFiles == OutputPaths \cup {HtmlPath(q) : q \in OutputPaths} \cup {TEST_PDF}

\* the command lines: no argument, test mode, an argument short, and normal
\* mode with user data that json.loads turns into a dict the template code
\* accepts ("object"), into a dict with a field of the wrong type such as
\* {"experience": 5} ("bad_object"), into another value ("array"), or
\* rejects ("invalid")
GenArgvInputs ==
    {<<"generate_resume.py">>,
     <<"generate_resume.py", "test">>,
     <<"generate_resume.py", "temp1", "object">>}
    \cup {<<"generate_resume.py", "temp1", j, q>> :
             j \in {"object", "bad_object", "array", "invalid"},
             q \in OutputPaths}

\* what the environment does to one call of convert_html_to_pdf.  run: the
\* wkhtmltopdf probe fails; writing the temporary file raises after it was
\* created (a full disk); subprocess.run cannot start xvfb-run; the renderer
\* runs out of its 30 seconds; it ends with a non-zero code; it ends with
\* code 0.  wrote: what the renderer has written at the output path by
\* then, nothing, a file below 1024 bytes, or a PDF.
RendererRuns == {"timeout", "failed", "completed"}
ConvertBehaviours ==
    {[run |-> r, wrote |-> "nothing"] :
        r \in {"no_wkhtmltopdf", "temp_write_raised", "no_xvfb"}}
    \cup {[run |-> r, wrote |-> w] :
            r \in RendererRuns, w \in {"nothing", "small", "pdf"}}

\* convert_html_to_pdf(html_content, output_path): the returned boolean,
\* the files afterwards, and the state of the temporary HTML file.  The
\* function never removes the output file; it returns True when the
\* renderer ended with code 0 and the output path then holds a file of at
\* least 1024 bytes.  os.unlink(temp_html_path) is reached only when
\* subprocess.run returned.
convert_html_to_pdf(fs, path, b) ==
    LET after == IF b.wrote = "nothing" THEN fs ELSE [fs EXCEPT ![path] = b.wrote]
    IN  [ok |-> b.run = "completed" /\ after[path] \notin {"absent", "small"},
         fs |-> after,
         temp |-> IF b.run = "no_wkhtmltopdf" THEN "none"
                  ELSE IF b.run \in {"temp_write_raised", "no_xvfb", "timeout"}
                  THEN "left"
                  ELSE "deleted"]

\* open(path, 'w') followed by f.write(html_content): done; open raises
\* OSError; or open has created or truncated the file and the write (or the
\* flush when the file is closed) raises, with less than 1024 bytes of the
\* HTML on disk by then, or with 1024 bytes or more
WriteOutcomes ==
    {"written", "open_raised", "write_raised_short", "write_raised_long"}

\* the exit status after the write and what the path holds: the whole HTML,
\* what it held before, a file below 1024 bytes, or the beginning of the
\* HTML in a file of 1024 bytes or more
WriteHtml(fs, path, w) ==
    CASE w = "written" -> [exit |-> 0, fs |-> [fs EXCEPT ![path] = "html"]]
      [] w = "open_raised" -> [exit |-> 1, fs |-> fs]
      [] w = "write_raised_short" ->
            [exit |-> 1, fs |-> [fs EXCEPT ![path] = "small"]]
      [] w = "write_raised_long" ->
            [exit |-> 1, fs |-> [fs EXCEPT ![path] = "partial_html"]]

\* the files before the run: nothing, or an earlier run has left a file
\* (below 1024 bytes, or a PDF) where this run will write
InitialFiles(av) ==
    LET target == IF Len(av) = 4 THEN {av[4]}
                  ELSE IF Len(av) = 2 THEN {TEST_PDF}
                  ELSE {}
    IN  {[f \in GenFiles |-> IF f \in target THEN st ELSE "absent"] :
            st \in {"absent", "small", "pdf"}}

InitGen ==
    /\ pc = "gen_start"
    /\ gen_argv \in GenArgvInputs
    /\ gen_fs \in InitialFiles(gen_argv)
    /\ gen_temp = "none"
    /\ gen_conv = NoConvert
    /\ gen_success = FALSE
    /\ gen_exit = -1
    /\ MainIdle
    /\ SegIdle
    /\ BasicsIdle
    /\ DelIdle

GenTestMode == Len(gen_argv) >= 2 /\ gen_argv[2] = "test"
GenNormalMode == Len(gen_argv) = 4 /\ gen_argv[2] # "test"

\* __main__: too few arguments, or not four of them outside test mode
GenUsage ==
    /\ pc = "gen_start"
    /\ IF Len(gen_argv) < 2 THEN TRUE
       ELSE gen_argv[2] # "test" /\ Len(gen_argv) # 4
    /\ gen_exit' = 1
    /\ pc' = "gen_exit"
    /\ UNCHANGED <<gen_argv, gen_fs, gen_temp, gen_conv, gen_success,
                 mainVars, segVars, basicsVars, delVars>>

\* __main__, test mode: test_wkhtmltopdf converts a page into
\* test_output.pdf, removes it after a success, and the process exits 0
GenTest ==
    /\ pc = "gen_start"
    /\ GenTestMode
    /\ \E b \in ConvertBehaviours :
          LET r == convert_html_to_pdf(gen_fs, TEST_PDF, b)
          IN  /\ gen_fs' = IF r.ok /\ r.fs[TEST_PDF] # "absent"
                            THEN [r.fs EXCEPT ![TEST_PDF] = "absent"]
                            ELSE r.fs
              /\ gen_temp' = r.temp
              /\ gen_conv' = b
    /\ gen_exit' = 0
    /\ pc' = "gen_exit"
    /\ UNCHANGED <<gen_argv, gen_success, mainVars, segVars, basicsVars, delVars>>

\* the user data on which json.loads or generate_html_resume raises
BadUserData == {"invalid", "array", "bad_object"}

\* __main__, normal mode: json.loads raises, or generate_html_resume raises
\* before anything is converted or written, on user_data.get because the
\* value is not a dict or on a field of the wrong type (an experience that
\* has no split); the except clause prints and exits 1
GenDataError ==
    /\ pc = "gen_start"
    /\ GenNormalMode
    /\ gen_argv[3] \in BadUserData
    /\ gen_exit' = 1
    /\ pc' = "gen_exit"
    /\ UNCHANGED <<gen_argv, gen_fs, gen_temp, gen_conv, gen_success,
                 mainVars, segVars, basicsVars, delVars>>

\* generate_resume_from_template, output_path ends with '.pdf':
\* success = convert_html_to_pdf(html_content, output_path)
GenConvert ==
    /\ pc = "gen_start"
    /\ GenNormalMode
    /\ gen_argv[3] = "object"
    /\ EndsWith(gen_argv[4], EXT_pdf)
    /\ \E b \in ConvertBehaviours :
          LET r == convert_html_to_pdf(gen_fs, gen_argv[4], b)
          IN  /\ gen_success' = r.ok
              /\ gen_fs' = r.fs
              /\ gen_temp' = r.temp
              /\ gen_conv' = b
    /\ pc' = "gen_converted"
    /\ UNCHANGED <<gen_argv, gen_exit, mainVars, segVars, basicsVars, delVars>>

\* generate_resume_from_template after the conversion: report the PDF, or
\* write the HTML next to it; then __main__ ends (exit status 0) unless the
\* write raised (exit status 1)
GenAfterConvert ==
    /\ pc = "gen_converted"
    /\ IF gen_success
       THEN /\ gen_exit' = 0
            /\ UNCHANGED gen_fs
       ELSE \E w \in WriteOutcomes :
               LET r == WriteHtml(gen_fs, HtmlPath(gen_argv[4]), w)
               IN  /\ gen_fs' = r.fs
                   /\ gen_exit' = r.exit
    /\ pc' = "gen_exit"
    /\ UNCHANGED <<gen_argv, gen_temp, gen_conv, gen_success,
                 mainVars, segVars, basicsVars, delVars>>

\* generate_resume_from_template, any other output_path: save the HTML there
GenSaveHtml ==
    /\ pc = "gen_start"
    /\ GenNormalMode
    /\ gen_argv[3] = "object"
    /\ ~EndsWith(gen_argv[4], EXT_pdf)
    /\ \E w \in WriteOutcomes :
          LET r == WriteHtml(gen_fs, gen_argv[4], w)
          IN  /\ gen_fs' = r.fs
              /\ gen_exit' = r.exit
    /\ pc' = "gen_exit"
    /\ UNCHANGED <<gen_argv, gen_temp, gen_conv, gen_success,
                 mainVars, segVars, basicsVars, delVars>>

NextGen ==
    \/ GenUsage
    \/ GenTest
    \/ GenDataError
    \/ GenConvert
    \/ GenAfterConvert
    \/ GenSaveHtml

SpecGen == InitGen /\ [][NextGen]_vars

\* C16: a normal-mode run with a template name, valid JSON user data and an
\* output path ending in ".pdf" that exits with status 0 has produced a PDF
\* file at that output path.
C16_ExitZeroMeansPdf ==
    (/\ pc = "gen_exit"
     /\ GenNormalMode
     /\ gen_argv[3] = "object"
     /\ EndsWith(gen_argv[4], EXT_pdf)
     /\ gen_exit = 0)
        => gen_fs[gen_argv[4]] = "pdf"

\* convert_html_to_pdf has been called and control is back in its caller
ConvertReturned == gen_conv # NoConvert

\* the paths the claim lists: successful conversion, non-zero return code,
\* missing or too-small output file, and the 30-second timeout: the
\* renderer was started and ended or was stopped
ListedPaths == {"completed", "failed", "timeout"}

\* C21: convert_html_to_pdf never raises and returns a boolean, and on every
\* path after the temporary HTML file was created (successful conversion,
\* non-zero return code, missing or too-small output file, 30-second
\* timeout) that file has been deleted when the function returns.
C21_TempDeletedOnReturn ==
    ConvertReturned =>
        /\ pc \in {"gen_converted", "gen_exit"}
        /\ gen_success \in BOOLEAN
        /\ gen_conv.run \in ListedPaths => gen_temp = "deleted"

----------------------------------------------------------------------------
(* delivery.py: class Delivery                                             *)

\* a Python float: a number, or nan, for which every comparison is False
F(x) == [nan |-> FALSE, val |-> x]
NaN == [nan |-> TRUE, val |-> 0]

\* r <= 0 on floats
FloatLeqZero(r) == ~r.nan /\ r.val <= 0

\* the largest driver id
MaxDrivers == 2
\* the latest hour on the clock; a datetime is a whole hour of one clock
MaxTime == 1
\* the largest number of recorded deliveries
MaxDeliveries == 1

DriverIds == 1..MaxDrivers
Rates == {F(-1), F(0), F(1), F(2), NaN}
Times == 0..MaxTime

Args(id, rate, start, end) ==
    [driver_id |-> id, rate |-> rate, start_time |-> start, end_time |-> end]
NoResult == [earnings |-> F(0), listing |-> <<>>]

\* the record of a call: what was called, how it ended, and the two fields
\* of the object as they were when it was called
Called(op, args, raised, result) ==
    [op |-> op, args |-> args, raised |-> raised, result |-> result,
     drivers_before |-> drivers, deliveries_before |-> deliveries]

\* add_driver: the exception raised ("none" if none) and self.drivers after
add_driver(ds, id, rate) ==
    IF id \in DOMAIN ds THEN [raised |-> "ValueError", drivers |-> ds]
    ELSE IF FloatLeqZero(rate) THEN [raised |-> "ValueError", drivers |-> ds]
    ELSE [raised |-> "none",
          drivers |-> [k \in DOMAIN ds \cup {id} |-> IF k = id THEN rate ELSE ds[k]]]

\* record_delivery: the exception raised and self.deliveries after
record_delivery_append_first(ds, dl, id, start, end) ==
    IF id \notin DOMAIN ds
    THEN [raised |-> "ValueError", deliveries |-> dl]
    ELSE IF end <= start
    THEN [raised |-> "ValueError", deliveries |-> Append(dl, <<id, start, end>>)]
    ELSE [raised |-> "none", deliveries |-> Append(dl, <<id, start, end>>)]
record_delivery(ds, dl, id, start, end) ==
    IF id \notin DOMAIN ds THEN [raised |-> "ValueError", deliveries |-> dl]
    ELSE IF end <= start THEN [raised |-> "ValueError", deliveries |-> dl]
    ELSE [raised |-> "none", deliveries |-> Append(dl, <<id, start, end>>)]

\* get_driver_deliveries: the records of one driver, in order
get_driver_deliveries(dl, id) == SelectSeq(dl, LAMBDA d : d[1] = id)

\* the loop of get_driver_earnings: the hours of the driver's deliveries
RECURSIVE TotalHours(_, _)
TotalHours(dl, id) ==
    IF dl = <<>> THEN 0
    ELSE (IF dl[1][1] = id THEN dl[1][3] - dl[1][2] ELSE 0) + TotalHours(Tail(dl), id)

\* get_driver_earnings: total_hours * hourly_rate
get_driver_earnings(ds, dl, id) ==
    IF ds[id].nan THEN NaN ELSE F(TotalHours(dl, id) * ds[id].val)

InitDel ==
    /\ pc = "delivery"
    /\ drivers = NoDict
    /\ deliveries = <<>>
    /\ last_call = [op |-> "__init__", args |-> Args(0, F(0), 0, 0), raised |-> "none",
                    result |-> NoResult, drivers_before |-> NoDict,
                    deliveries_before |-> <<>>]
    /\ MainIdle
    /\ SegIdle
    /\ BasicsIdle
    /\ GenIdle

AddDriver ==
    /\ pc = "delivery"
    /\ \E id \in DriverIds, rate \in Rates :
          LET r == add_driver(drivers, id, rate)
          IN  /\ drivers' = r.drivers
              /\ last_call' = Called("add_driver", Args(id, rate, 0, 0), r.raised, NoResult)
    /\ UNCHANGED <<pc, deliveries, mainVars, segVars, basicsVars, genVars>>

RecordDelivery ==
    /\ pc = "delivery"
    /\ \E id \in DriverIds, start \in Times, end \in Times :
          LET r == record_delivery(drivers, deliveries, id, start, end)
          IN  /\ Len(r.deliveries) <= MaxDeliveries
              /\ deliveries' = r.deliveries
              /\ last_call' = Called("record_delivery", Args(id, F(0), start, end),
                                      r.raised, NoResult)
    /\ UNCHANGED <<pc, drivers, mainVars, segVars, basicsVars, genVars>>

GetDriverEarnings ==
    /\ pc = "delivery"
    /\ \E id \in DriverIds :
          last_call' =
              IF id \notin DOMAIN drivers
              THEN Called("get_driver_earnings", Args(id, F(0), 0, 0), "ValueError", NoResult)
              ELSE Called("get_driver_earnings", Args(id, F(0), 0, 0), "none",
                          [earnings |-> get_driver_earnings(drivers, deliveries, id),
                           listing |-> <<>>])
    /\ UNCHANGED <<pc, drivers, deliveries, mainVars, segVars, basicsVars, genVars>>

GetAllDeliveries ==
    /\ pc = "delivery"
    /\ last_call' = Called("get_all_deliveries", Args(0, F(0), 0, 0), "none",
                            [earnings |-> F(0), listing |-> deliveries])
    /\ UNCHANGED <<pc, drivers, deliveries, mainVars, segVars, basicsVars, genVars>>

GetDriverDeliveries ==
    /\ pc = "delivery"
    /\ \E id \in DriverIds :
          last_call' =
              IF id \notin DOMAIN drivers
              THEN Called("get_driver_deliveries", Args(id, F(0), 0, 0), "ValueError",
                          NoResult)
              ELSE Called("get_driver_deliveries", Args(id, F(0), 0, 0), "none",
                          [earnings |-> F(0),
                           listing |-> get_driver_deliveries(deliveries, id)])
    /\ UNCHANGED <<pc, drivers, deliveries, mainVars, segVars, basicsVars, genVars>>

NextDel ==
    \/ AddDriver
    \/ RecordDelivery
    \/ GetDriverEarnings
    \/ GetAllDeliveries
    \/ GetDriverDeliveries

SpecDel == InitDel /\ [][NextDel]_vars

\* C19: whatever was called so far, every stored hourly rate is greater
\* than 0, every recorded delivery names a registered driver and ends after
\* it starts, the latest call has changed or removed no registered rate,
\* and it has at most appended to the list of deliveries.
C19_DeliveryInvariants ==
    pc = "delivery" =>
        /\ \A d \in DOMAIN drivers : ~drivers[d].nan /\ drivers[d].val > 0
        /\ \A i \in 1..Len(deliveries) :
              /\ deliveries[i][1] \in DOMAIN drivers
              /\ deliveries[i][3] > deliveries[i][2]
        /\ \A d \in DOMAIN last_call.drivers_before :
              d \in DOMAIN drivers /\ drivers[d] = last_call.drivers_before[d]
        /\ Len(deliveries) >= Len(last_call.deliveries_before)
        /\ SubSeq(deliveries, 1, Len(last_call.deliveries_before))
              = last_call.deliveries_before

QueryOps == {"get_driver_earnings", "get_all_deliveries", "get_driver_deliveries"}

\* whether the latest call is one the class has to reject
Rejected ==
    LET a == last_call.args
        known == a.driver_id \in DOMAIN last_call.drivers_before
    IN  CASE last_call.op = "add_driver" -> known \/ (~a.rate.nan /\ a.rate.val <= 0)
          [] last_call.op = "record_delivery" -> ~known \/ a.end_time <= a.start_time
          [] last_call.op \in {"get_driver_earnings", "get_driver_deliveries"} -> ~known
          [] OTHER -> FALSE

\* C20: a rejected call raises ValueError and leaves drivers and deliveries
\* as they were; a query leaves them as they were also when it succeeds.
C20_RejectedAndQueriesChangeNothing ==
    pc = "delivery" =>
        /\ Rejected =>
              /\ last_call.raised = "ValueError"
              /\ drivers = last_call.drivers_before
              /\ deliveries = last_call.deliveries_before
        /\ last_call.op \in QueryOps =>
              /\ drivers = last_call.drivers_before
              /\ deliveries = last_call.deliveries_before

\* with one driver and one delivery on record, a delivery that ends when it
\* starts is rejected
C20_Witness ==
    /\ pc = "delivery"
    /\ last_call.op = "record_delivery"
    /\ last_call.raised = "ValueError"
    /\ last_call.args.driver_id \in DOMAIN drivers
    /\ last_call.args.end_time = last_call.args.start_time
    /\ Len(deliveries) = 1

====
